---- MODULE Spec2Model ----
(***************************************************************************)
(* Workflow execution engine of the backend: ExecutionService (executeFlow,*)
(* executeFlowAsync, executeNodes, executeNode, getNextNode,               *)
(* cancelExecution) over the flows / executions / execution_logs tables.   *)
(*                                                                         *)
(* Granularity.  Node.js runs one callback at a time, so tasks interleave  *)
(* only where the code awaits a database query or a timer.  A run-task or  *)
(* cancel action below is "the awaited query takes effect, then the code   *)
(* runs up to the next real await".  Awaits on async functions that do no  *)
(* I/O only yield to the microtask queue and are not interleaving points.  *)
(* executeFlow reads the flow row and inserts the execution row; nothing   *)
(* in the model writes the flow row in between, so it is one action.       *)
(*                                                                         *)
(* Services.  The routes create a new ExecutionService for every request   *)
(* (getExecutionService), so each run is registered in the map of the      *)
(* service that started it and a cancel request acts on an empty map.      *)
(*                                                                         *)
(* Storage.  The SQLite file is external to the program and createTables   *)
(* uses CREATE TABLE IF NOT EXISTS, so the tables may be the ones that     *)
(* createTables declares or ones that already existed.  Init draws both:   *)
(* flows.status absent (Undefined) or present, executions.created_at       *)
(* NOT NULL without default (as declared) or not.                          *)
(*                                                                         *)
(* Specifications.  Spec is the engine with one flow row.  LogSpec adds a  *)
(* ticking clock and a reader of the logs, LookupSpec a client asking for  *)
(* an execution's status, PublishSpec FlowService.publishFlow, and         *)
(* ConcurrentSpec runs several executions of two flows in one process,     *)
(* with the shutdown that app.ts starts on an unhandled rejection.         *)
(* VariableSpec runs flows built around a variable node.  LimiterSpec is   *)
(* one call of limitConcurrency with its tasks, RateSpec one RateLimiter   *)
(* over its MemoryStore with its own clock, and StoreSpec the editor's     *)
(* flow store with its undo history; each of the three leaves the engine   *)
(* idle, and the engine's specifications leave them idle.                  *)
(*                                                                         *)
(* Not modelled: the wall-clock columns started_at, completed_at and       *)
(* duration (execution_logs.timestamp is a column of the log rows; the     *)
(* clock only ticks in LogSpec); database I/O errors other than the NOT    *)
(* NULL constraint; tasks of limitConcurrency that reject; the             *)
(* skipSuccessfulRequests / skipFailedRequests options (off in every       *)
(* predefined limiter) and RateLimiter.reset; duplicateNode, and setNodes  *)
(* / setEdges other than as the load of a store before its first edit.  A  *)
(* table is the bag of its rows.                                           *)
(***************************************************************************)
EXTENDS Integers, Sequences, FiniteSets, Bags, TLC

\* ---------------------------------------------------------------- bounds
\* number of executeFlow calls explored
MaxStarts == 1
\* number of cancelExecution calls explored
MaxCancels == 1
\* executionPath entries tracked per run (longer paths saturate)
MaxPath == 4
\* execution_logs rows tracked per execution (further rows are not tracked)
MaxLog == 10
\* milliseconds the clock advances in LogSpec
MaxClock == 1
\* executions started in ConcurrentSpec
MaxConcurrent == 2
\* largest page size asked of getExecutionLogs
MaxLimit == 3

\* tasks handed to limitConcurrency
MaxTasks == 4
\* largest limit handed to limitConcurrency
MaxParallel == 2

\* milliseconds the rate limiter's clock advances
MaxTime == 4
\* requests sent through the rate limiter
MaxSent == 4
\* largest windowMs and maxRequests a RateLimiter is built with
MaxWindow == 2
MaxAllowed == 2

\* edits and clearFlow calls made on the flow store
MaxCalls == 4
\* maxHistorySize of addToHistory: 50 in the source, scaled down so that the
\* histories can be enumerated and the limit is reached within MaxCalls
maxHistorySize == 3

\* ---------------------------------------------------------------- values
\* JavaScript undefined / null and SQL NULL
Undefined == "undefined"
Null == "null"
SqlNull == "NULL"

\* request payloads offered to executeFlow
Inputs == {"in1"}

ExecIds == 1 .. MaxStarts
\* 0 is an id that no executeFlow call ever returns
CancelTargets == 0 .. MaxStarts
CancelIds == 1 .. MaxCancels

\* ids offered to executeFlow: the stored flow and an id with no row
FlowIds == {"f1", "f0"}

\* JSON.stringify: undefined has no JSON text, every other value has one
JSONstringify(v) ==
  IF v = Undefined THEN Undefined ELSE "json:" \o v

\* the least index of a set of indices, 0 if there is none (find: first match)
FirstIndex(S) == IF S = {} THEN 0 ELSE CHOOSE i \in S : \A j \in S : i <= j

\* the greatest index of a set of indices, 0 if there is none
LastIndex(S) == IF S = {} THEN 0 ELSE CHOOSE i \in S : \A j \in S : j <= i

\* flow.nodes.find(node => node.type === type)
FindNodeByType(nodes, type) ==
  FirstIndex({i \in 1 .. Len(nodes) : nodes[i].type = type})

\* flow.nodes.find(node => node.id === id)
FindNodeById(nodes, id) ==
  FirstIndex({i \in 1 .. Len(nodes) : nodes[i].id = id})

\* ---------------------------------------------------------------- flows
VarNames == {"x"}

NoConfig ==
  [condition |-> Undefined, conditions |-> <<>>, operator |-> Undefined,
   defaultPath |-> Undefined, actionType |-> Undefined, operation |-> Undefined,
   variableName |-> Undefined, value |-> Undefined]

Node(id, type, config) == [id |-> id, type |-> type, config |-> config]

\* FlowConnection carries both spellings of its endpoints
Conn(s, t) ==
  [sourceId |-> s, targetId |-> t, sourceNodeId |-> s, targetNodeId |-> t,
   sourceHandle |-> Undefined]

\* a connection that leaves its source through the named branch handle
ConnH(s, t, h) == [Conn(s, t) EXCEPT !.sourceHandle = h]

StartN == Node("s", "start", NoConfig)
EndN == Node("e", "end", NoConfig)
HttpN == Node("a", "action", [NoConfig EXCEPT !.actionType = "http_request"])
NotifyN == Node("a", "action", [NoConfig EXCEPT !.actionType = "notification"])
SetN ==
  Node("v", "variable",
       [NoConfig EXCEPT !.operation = "set", !.variableName = "x", !.value = "val"])
GetN ==
  Node("a", "variable",
       [NoConfig EXCEPT !.operation = "get", !.variableName = "x"])
IncrN ==
  Node("a", "variable",
       [NoConfig EXCEPT !.operation = "increment", !.variableName = "x"])
CondBareN == Node("a", "condition", NoConfig)
\* a ConditionRule comparing the field x of the input with a literal
RuleXEquals(v) ==
  [leftOperand |-> "input.x", operator |-> "equals", rightOperand |-> v]
\* a condition node with one rule under AND; condition is the key the engine reads
CondN(v, defaultPath) ==
  Node("c", "condition",
       [NoConfig EXCEPT !.condition = "input.x equals " \o v,
                        !.conditions = <<RuleXEquals(v)>>,
                        !.operator = "AND", !.defaultPath = defaultPath])
DelayN == Node("a", "delay", NoConfig)
CustomN == Node("a", "custom", NoConfig)

\* the graphs a stored flow row may hold in this model
FlowCatalogue ==
  { [name |-> "linear", nodes |-> <<StartN, HttpN, EndN>>,
     connections |-> <<Conn("s", "a"), Conn("a", "e")>>],
    [name |-> "deadEnd", nodes |-> <<StartN, HttpN, EndN>>,
     connections |-> <<Conn("s", "a")>>],
    [name |-> "cycle", nodes |-> <<StartN, HttpN, EndN>>,
     connections |-> <<Conn("s", "a"), Conn("a", "s"), Conn("a", "e")>>],
    [name |-> "failAction", nodes |-> <<StartN, NotifyN, EndN>>,
     connections |-> <<Conn("s", "a"), Conn("a", "e")>>],
    [name |-> "delay", nodes |-> <<StartN, DelayN, EndN>>,
     connections |-> <<Conn("s", "a"), Conn("a", "e")>>],
    [name |-> "noStart", nodes |-> <<HttpN, EndN>>,
     connections |-> <<Conn("a", "e")>>],
    [name |-> "twoStarts", nodes |-> <<StartN, Node("a", "start", NoConfig), EndN>>,
     connections |-> <<Conn("s", "e")>>],
    [name |-> "noEnd", nodes |-> <<StartN, HttpN>>,
     connections |-> <<Conn("s", "a")>>],
    [name |-> "duplicateIds", nodes |-> <<StartN, EndN, EndN>>,
     connections |-> <<Conn("s", "e")>>],
    [name |-> "ghostTarget", nodes |-> <<StartN, EndN>>,
     connections |-> <<Conn("s", "ghost")>>],
    [name |-> "branchFalse", nodes |-> <<StartN, CondN("6", "true"), HttpN, EndN>>,
     connections |-> <<Conn("s", "c"), ConnH("c", "a", "true"),
                       ConnH("c", "e", "false"), Conn("a", "e")>>],
    [name |-> "trueMissing", nodes |-> <<StartN, CondN("5", "true"), EndN>>,
     connections |-> <<Conn("s", "c"), ConnH("c", "e", "false")>>] }

\* flow.variables as stored: createFlow/updateFlow type it as a name->value
\* record, the shared Flow type as an array of {name, defaultValue}
FlowVariableShapes ==
  { [kind |-> "record", items |-> <<[name |-> "x", defaultValue |-> "dflt"]>>],
    [kind |-> "array", items |-> <<[name |-> "x", defaultValue |-> "dflt"]>>] }

\* ---------------------------------------------------------------- validation.ts
StartNodeErrors(nodes) ==
  LET n == Len(SelectSeq(nodes, LAMBDA node : node.type = "start"))
  IN  IF n = 0 THEN <<"Flow must have at least one start node">>
      ELSE IF n > 1 THEN <<"Flow can only have one start node">>
      ELSE <<>>

EndNodeErrors(nodes) ==
  IF Len(SelectSeq(nodes, LAMBDA node : node.type = "end")) = 0
  THEN <<"Flow must have at least one end node">>
  ELSE <<>>

UniqueIdErrors(nodes) ==
  IF Len(nodes) # Cardinality({nodes[i].id : i \in 1 .. Len(nodes)})
  THEN <<"Node IDs must be unique">>
  ELSE <<>>

NodeExists(nodes, id) == \E i \in 1 .. Len(nodes) : nodes[i].id = id

RECURSIVE ConnectionErrors(_, _)
ConnectionErrors(nodes, connections) ==
  IF connections = <<>> THEN <<>>
  ELSE LET c == Head(connections)
       IN  (IF NodeExists(nodes, c.sourceNodeId) THEN <<>>
            ELSE <<"Connection source node " \o c.sourceNodeId \o " does not exist">>)
           \o
           (IF NodeExists(nodes, c.targetNodeId) THEN <<>>
            ELSE <<"Connection target node " \o c.targetNodeId \o " does not exist">>)
           \o ConnectionErrors(nodes, Tail(connections))

\* ids reachable from the ids in frontier along connections
RECURSIVE Descendants(_, _, _)
Descendants(connections, frontier, seen) ==
  LET next == {connections[i].targetNodeId :
                 i \in {j \in 1 .. Len(connections) :
                          connections[j].sourceNodeId \in frontier}}
      new == next \ seen
  IN  IF new = {} THEN seen ELSE Descendants(connections, new, seen \cup new)

\* the depth-first search finds a node on its own recursion stack exactly when
\* some id reaches itself along one or more connections
HasCircularDependency(nodes, connections) ==
  LET keys == {nodes[i].id : i \in 1 .. Len(nodes)}
              \cup {connections[i].sourceNodeId : i \in 1 .. Len(connections)}
  IN  \E k \in keys : k \in Descendants(connections, {k}, {})

ValidateFlowStructure(nodes, connections) ==
  LET errors == StartNodeErrors(nodes) \o EndNodeErrors(nodes)
                \o UniqueIdErrors(nodes) \o ConnectionErrors(nodes, connections)
                \o (IF HasCircularDependency(nodes, connections)
                    THEN <<"Flow contains circular dependencies">> ELSE <<>>)
  IN  [isValid |-> Len(errors) = 0, errors |-> errors]

\* ---------------------------------------------------------------- node executors
\* an executor either returns a value (and possibly updated variables) or throws
Returned(v, vars) == [thrown |-> FALSE, value |-> v, error |-> Undefined, variables |-> vars]
Thrown(msg, vars) == [thrown |-> TRUE, value |-> Undefined, error |-> msg, variables |-> vars]

executeConditionNode(node, inputData, variables) ==
  IF node.config.condition = Undefined
  THEN Thrown("Condition node missing condition configuration", variables)
  ELSE Returned(inputData, variables)

executeHttpRequest(config, inputData) == inputData

executeDataTransform(config, inputData) == inputData

executeActionNode(node, inputData, variables) ==
  CASE node.config.actionType = "http_request" ->
         Returned(executeHttpRequest(node.config, inputData), variables)
    [] node.config.actionType = "data_transform" ->
         Returned(executeDataTransform(node.config, inputData), variables)
    [] OTHER ->
         Thrown("Unsupported action type: " \o node.config.actionType, variables)

\* the part of executeDelayNode after its timer has fired
executeDelayNode(node, inputData, variables) == Returned(inputData, variables)

executeVariableNode(node, inputData, variables) ==
  CASE node.config.operation = "set" ->
         Returned(inputData,
                  [variables EXCEPT ![node.config.variableName] = node.config.value])
    [] node.config.operation = "get" ->
         Returned(variables[node.config.variableName], variables)
    [] OTHER ->
         Thrown("Unsupported variable operation: " \o node.config.operation, variables)

\* executeNode: the NodeExecutionResult plus the context fields it changed
executeNode(node, context, inputData) ==
  LET r == CASE node.type = "start" -> Returned(context.inputData, context.variables)
             [] node.type = "end" -> Returned(inputData, context.variables)
             [] node.type = "condition" ->
                  executeConditionNode(node, inputData, context.variables)
             [] node.type = "action" ->
                  executeActionNode(node, inputData, context.variables)
             [] node.type = "delay" ->
                  executeDelayNode(node, inputData, context.variables)
             [] node.type = "variable" ->
                  executeVariableNode(node, inputData, context.variables)
             [] OTHER ->
                  Thrown("Unsupported node type: " \o node.type, context.variables)
  IN  [nodeResult |->
         IF r.thrown
         THEN [nodeId |-> node.id, success |-> FALSE, status |-> "failed",
               outputData |-> Null, error |-> r.error]
         ELSE [nodeId |-> node.id, success |-> TRUE, status |-> "completed",
               outputData |-> r.value, error |-> Undefined],
       context |->
         [context EXCEPT !.variables = r.variables,
                         !.outputData = IF node.type = "end" THEN inputData ELSE @]]

\* a traversal that follows the last outgoing connection instead of the first
getNextNode_Last(flow, currentNode) ==
  LET connections ==
        SelectSeq(flow.connections, LAMBDA conn : conn.sourceNodeId = currentNode.id)
  IN  IF Len(connections) = 0 THEN 0
      ELSE FindNodeById(flow.nodes, connections[Len(connections)].targetNodeId)

\* getNextNode: index into flow.nodes of the next node, 0 for null/undefined
getNextNode(flow, currentNode) ==
  LET connections ==
        SelectSeq(flow.connections, LAMBDA conn : conn.sourceNodeId = currentNode.id)
  IN  IF Len(connections) = 0 THEN 0
      ELSE FindNodeById(flow.nodes, connections[1].targetNodeId)

\* ---------------------------------------------------------------- state
VARIABLES
  flows,             \* flows table: flow id -> row
  storage,           \* how the tables and the service are set up
  executions,        \* executions table: row of execution id i at index i
  logs,              \* execution_logs table: the bag of rows of each execution
  activeExecutions,  \* ids held in the activeExecutions map of the service that runs them
  run,               \* the executeFlowAsync task of each execution
  cancel,            \* the cancelExecution calls
  starts,            \* the responses of the executeFlow calls, in call order
  now,               \* the clock that new Date() reads, in milliseconds
  reply,             \* the answer to the last read or publish request
  limiter,           \* one limitConcurrency call: its locals and its tasks
  rateLimit,         \* one RateLimiter: options, MemoryStore map, Date.now()
  useFlowStore       \* the editor's flow store

\* the engine's state
engine == <<flows, storage, executions, logs, activeExecutions, run, cancel, starts,
            now, reply>>

\* the state of the utilities and of the editor store
utilities == <<limiter, rateLimit, useFlowStore>>

vars == <<engine, utilities>>

\* no limitConcurrency call is under way
NoLimiterCall ==
  [pc |-> "idle", limit |-> 0, tasks |-> 0, started |-> 0, executing |-> <<>>,
   settled |-> {}, results |-> <<>>]

\* new RateLimiter(options): an empty MemoryStore
RateLimiter(windowMs, maxRequests) ==
  [windowMs |-> windowMs, maxRequests |-> maxRequests,
   store |-> [k \in {} |-> [count |-> 0, expiry |-> 0]],
   time |-> 0, requests |-> <<>>]

\* the flow store as create() builds it
FreshStore ==
  [nodes |-> <<>>, edges |-> <<>>, selectedNode |-> <<>>, history |-> <<>>,
   historyIndex |-> -1, calls |-> 0]

\* the utilities and the editor store are not in use
UtilitiesIdle ==
  /\ limiter = NoLimiterCall
  /\ rateLimit = RateLimiter(0, 0)
  /\ useFlowStore = FreshStore

NoContext ==
  [executionId |-> 0, flowId |-> Undefined,
   variables |-> [n \in VarNames |-> Undefined],
   inputData |-> Undefined, outputData |-> Undefined,
   currentNodeId |-> "", executionPath |-> <<>>]

NoNodeResult ==
  [nodeId |-> Undefined, success |-> TRUE, status |-> Undefined,
   outputData |-> Undefined, error |-> Undefined]

NoFlow == [id |-> Undefined, name |-> Undefined, nodes |-> <<>>, connections |-> <<>>,
           variables |-> [kind |-> "record", items |-> <<>>], status |-> Undefined,
           isPublished |-> FALSE]

\* a task that has not been launched
NoRun ==
  [pc |-> "none", flow |-> NoFlow, context |-> NoContext, currentNode |-> 0,
   result |-> Undefined, nodeResult |-> NoNodeResult, error |-> Undefined,
   timestamp |-> 0]

\* a cancelExecution call: execution is the status its first read saw
NoCancel ==
  [pc |-> "idle", id |-> 0, execution |-> Undefined, returned |-> Undefined,
   timestamp |-> 0]

\* no read or publish request has been answered
NoReply ==
  [op |-> Undefined, id |-> 0, flowId |-> Undefined, outcome |-> Undefined,
   items |-> <<>>, total |-> 0]

\* mapRowToFlow: a row without a status value maps to 'draft'
mapRowToFlow(row) ==
  [id |-> row.id, name |-> row.name, nodes |-> row.nodes,
   connections |-> row.connections, variables |-> row.variables,
   status |-> IF row.status \in {Undefined, SqlNull} THEN "draft" ELSE row.status,
   isPublished |-> row.is_published]

\* getFlowById: the mapped row, or NoFlow (null) when there is no row
getFlowById(id) ==
  IF id \in DOMAIN flows THEN mapRowToFlow(flows[id]) ELSE NoFlow

Init ==
  /\ \E g \in FlowCatalogue, v \in FlowVariableShapes,
        st \in {Undefined, "draft", "published"} :
       flows = [f \in {"f1"} |->
                  [id |-> f, name |-> g.name, nodes |-> g.nodes,
                   connections |-> g.connections, variables |-> v,
                   status |-> st, is_published |-> FALSE]]
  /\ storage \in [createdAtRequired : BOOLEAN]
  /\ executions = <<>>
  /\ logs = [e \in ExecIds |-> EmptyBag]
  /\ activeExecutions = {}
  /\ run = [e \in ExecIds |-> NoRun]
  /\ cancel = [c \in CancelIds |-> NoCancel]
  /\ starts = <<>>
  /\ now = 0
  /\ reply = NoReply
  /\ UtilitiesIdle

\* ---------------------------------------------------------------- recorder
\* addExecutionLog: one more execution_logs row for the execution; the call
\* read the clock (timestamp) before it issued the insert that lands here
addExecutionLog(executionId, nodeId, level, message, timestamp) ==
  logs' = [logs EXCEPT ![executionId] =
             IF BagCardinality(@) < MaxLog
             THEN @ (+) SetToBag({[nodeId |-> nodeId, level |-> level,
                                   message |-> message, timestamp |-> timestamp]})
             ELSE @]

\* updateExecutionStatus: UPDATE executions SET status = ? WHERE id = ?
updateExecutionStatus(id, status) ==
  executions' = [executions EXCEPT ![id].status = status]

\* context.executionPath.push
PushPath(path, id) == IF Len(path) < MaxPath THEN Append(path, id) ELSE path

\* top of the while loop in executeNodes, up to the awaited 'Executing node' log
EnterNode(r, idx) ==
  [r EXCEPT !.currentNode = idx,
            !.context.currentNodeId = r.flow.nodes[idx].id,
            !.context.executionPath = PushPath(@, r.flow.nodes[idx].id),
            !.timestamp = now,
            !.pc = "logExecuting"]

\* ---------------------------------------------------------------- executeFlow
Respond(flowId, outcome, executionId) ==
  starts' = Append(starts, [flowId |-> flowId, outcome |-> outcome,
                            executionId |-> executionId])

\* the synchronous head of executeFlowAsync: build the context, seed the
\* variables (forEach exists only on an array), enter the try block and issue
\* the 'running' update
LaunchRun(executionId, flow, inputData) ==
  LET context == [executionId |-> executionId, flowId |-> flow.id,
                  variables |-> [n \in VarNames |-> Undefined],
                  inputData |-> inputData, outputData |-> "{}",
                  currentNodeId |-> "", executionPath |-> <<>>]
      items == flow.variables.items
      \* forEach(variable => variables.set(name, defaultValue)): the last one stays
      seeded == [n \in VarNames |->
                   LET i == LastIndex({k \in 1 .. Len(items) : items[k].name = n})
                   IN  IF i = 0 THEN Undefined ELSE items[i].defaultValue]
  IN  IF flow.variables.kind = "array"
      THEN [NoRun EXCEPT !.pc = "updateRunning", !.flow = flow,
                         !.context = [context EXCEPT !.variables = seeded]]
      ELSE [NoRun EXCEPT !.pc = "crashed", !.flow = flow, !.context = context,
                         !.error = "flow.variables.forEach is not a function"]

\* a publish check that lets every stored flow through
FlowExecutable_Always(flow) == TRUE

\* executeFlow's publish check
FlowExecutable(flow) == flow.status = "published"

executeFlow(flowId, inputData) ==
  /\ Len(starts) < Cardinality(DOMAIN run)
  /\ LET flow == getFlowById(flowId)
         executionId == Len(executions) + 1
     IN  IF flow = NoFlow
         THEN /\ Respond(flowId, "NotFound", 0)
              /\ UNCHANGED <<executions, run>>
         ELSE IF ~FlowExecutable(flow)
         THEN /\ Respond(flowId, "BadRequest", 0)
              /\ UNCHANGED <<executions, run>>
         ELSE IF storage.createdAtRequired
         THEN \* INSERT omits created_at: NOT NULL constraint fails
              /\ Respond(flowId, "InternalError", 0)
              /\ UNCHANGED <<executions, run>>
         ELSE /\ executions' =
                   Append(executions,
                          [id |-> executionId, flow_id |-> flowId, status |-> "pending",
                           input_data |-> JSONstringify(inputData),
                           output_data |-> SqlNull, error_message |-> SqlNull])
              /\ run' = [run EXCEPT ![executionId] = LaunchRun(executionId, flow, inputData)]
              /\ Respond(flowId, "pending", executionId)
  /\ UNCHANGED <<flows, storage, logs, activeExecutions, cancel, now, reply, utilities>>

\* ---------------------------------------------------------------- executeFlowAsync
\* 'running' update lands; register the context; issue the start log
RunUpdateRunning(e) ==
  /\ run[e].pc = "updateRunning"
  /\ updateExecutionStatus(e, "running")
  /\ activeExecutions' = activeExecutions \cup {e}
  /\ run' = [run EXCEPT ![e].pc = "logStarted", ![e].timestamp = now]
  /\ UNCHANGED <<flows, storage, logs, cancel, starts, now, reply, utilities>>

\* start log lands; executeNodes looks for the start node and enters the loop
RunLogStarted(e) ==
  /\ run[e].pc = "logStarted"
  /\ addExecutionLog(e, "system", "info", "Flow execution started", run[e].timestamp)
  /\ LET startNode == FindNodeByType(run[e].flow.nodes, "start")
     IN  run' = [run EXCEPT ![e] =
                   IF startNode = 0
                   THEN [@ EXCEPT !.error = "No start node found in flow",
                                  !.pc = "updateFailed"]
                   ELSE EnterNode([@ EXCEPT !.result = run[e].context.inputData], startNode)]
  /\ UNCHANGED <<flows, storage, executions, activeExecutions, cancel, starts, now, reply, utilities>>

\* a node execution in which every run reads the variables map of the first
\* execution, as if the map were a field of the service
AfterExecuteNode_SharedVariables(r) ==
  LET x == executeNode(r.flow.nodes[r.currentNode],
                       [r.context EXCEPT !.variables = run[1].context.variables],
                       r.result)
  IN  [r EXCEPT !.nodeResult = x.nodeResult,
                !.context = x.context,
                !.result = x.nodeResult.outputData,
                !.timestamp = now,
                !.pc = "logNodeOk"]

\* executeNode returned: take its output as the result, issue the success log
AfterExecuteNode(r) ==
  LET x == executeNode(r.flow.nodes[r.currentNode], r.context, r.result)
  IN  [r EXCEPT !.nodeResult = x.nodeResult,
                !.context = x.context,
                !.result = x.nodeResult.outputData,
                !.timestamp = now,
                !.pc = "logNodeOk"]

\* 'Executing node' log lands; executeNode runs (a delay node waits on its timer)
RunLogExecuting(e) ==
  /\ run[e].pc = "logExecuting"
  /\ addExecutionLog(e, run[e].flow.nodes[run[e].currentNode].id, "info", "Executing node",
                     run[e].timestamp)
  /\ run' = [run EXCEPT ![e] =
               IF @.flow.nodes[@.currentNode].type = "delay"
               THEN [@ EXCEPT !.pc = "delay"]
               ELSE AfterExecuteNode(@)]
  /\ UNCHANGED <<flows, storage, executions, activeExecutions, cancel, starts, now, reply, utilities>>

\* the setTimeout of executeDelayNode fires
RunDelay(e) ==
  /\ run[e].pc = "delay"
  /\ run' = [run EXCEPT ![e] = AfterExecuteNode(@)]
  /\ UNCHANGED <<flows, storage, executions, logs, activeExecutions, cancel, starts, now, reply, utilities>>

\* success log lands; stop at an end node or when there is no next node,
\* otherwise enter the loop again with the next node
RunLogNodeOk(e) ==
  /\ run[e].pc = "logNodeOk"
  /\ addExecutionLog(e, run[e].flow.nodes[run[e].currentNode].id, "info",
                     "Node executed successfully", run[e].timestamp)
  /\ LET node == run[e].flow.nodes[run[e].currentNode]
         next == getNextNode(run[e].flow, node)
     IN  run' = [run EXCEPT ![e] =
                   IF node.type = "end" \/ next = 0
                   THEN [@ EXCEPT !.pc = "updateCompleted"]
                   ELSE EnterNode(@, next)]
  /\ UNCHANGED <<flows, storage, executions, activeExecutions, cancel, starts, now, reply, utilities>>

\* UPDATE ... status = 'completed', output_data = JSON.stringify(result)
RunUpdateCompleted(e) ==
  /\ run[e].pc = "updateCompleted"
  /\ executions' = [executions EXCEPT ![e].status = "completed",
                                      ![e].output_data = JSONstringify(run[e].result)]
  /\ run' = [run EXCEPT ![e].pc = "logCompleted", ![e].timestamp = now]
  /\ UNCHANGED <<flows, storage, logs, activeExecutions, cancel, starts, now, reply, utilities>>

\* completion log lands; finally: deregister
RunLogCompleted(e) ==
  /\ run[e].pc = "logCompleted"
  /\ addExecutionLog(e, "system", "info", "Flow execution completed", run[e].timestamp)
  /\ activeExecutions' = activeExecutions \ {e}
  /\ run' = [run EXCEPT ![e].pc = "done"]
  /\ UNCHANGED <<flows, storage, executions, cancel, starts, now, reply, utilities>>

\* catch: UPDATE ... status = 'failed', error_message = error.message
RunUpdateFailed(e) ==
  /\ run[e].pc = "updateFailed"
  /\ executions' = [executions EXCEPT ![e].status = "failed",
                                      ![e].error_message = run[e].error]
  /\ run' = [run EXCEPT ![e].pc = "logFailed", ![e].timestamp = now]
  /\ UNCHANGED <<flows, storage, logs, activeExecutions, cancel, starts, now, reply, utilities>>

\* failure log lands; finally: deregister
RunLogFailed(e) ==
  /\ run[e].pc = "logFailed"
  /\ addExecutionLog(e, "system", "error", "Flow execution failed", run[e].timestamp)
  /\ activeExecutions' = activeExecutions \ {e}
  /\ run' = [run EXCEPT ![e].pc = "done"]
  /\ UNCHANGED <<flows, storage, executions, cancel, starts, now, reply, utilities>>

\* ---------------------------------------------------------------- cancelExecution
\* getExecutionById, the status check, and the issue of the 'cancelled' update
CancelRead(c, id) ==
  /\ cancel[c].pc = "idle"
  /\ id \in DOMAIN executions \cup {0}
  /\ \A d \in CancelIds : d < c => cancel[d].pc # "idle"
  /\ cancel' = [cancel EXCEPT ![c] =
                  IF id \notin DOMAIN executions
                  THEN [@ EXCEPT !.id = id, !.pc = "notFound"]
                  ELSE IF executions[id].status \notin {"pending", "running"}
                  THEN [@ EXCEPT !.id = id, !.execution = executions[id].status,
                                 !.pc = "rejected"]
                  ELSE [@ EXCEPT !.id = id, !.execution = executions[id].status,
                                 !.pc = "update"]]
  /\ UNCHANGED <<flows, storage, executions, logs, activeExecutions, run, starts, now, reply, utilities>>

\* 'cancelled' update lands; activeExecutions.delete acts on the map of the
\* service that serves this request, which getExecutionService() has just
\* created and which holds no id; issue the log
CancelUpdate(c) ==
  /\ cancel[c].pc = "update"
  /\ updateExecutionStatus(cancel[c].id, "cancelled")
  /\ cancel' = [cancel EXCEPT ![c].pc = "log", ![c].timestamp = now]
  /\ UNCHANGED <<flows, storage, logs, activeExecutions, run, starts, now, reply, utilities>>

\* cancellation log lands; issue the final getExecutionById
CancelLog(c) ==
  /\ cancel[c].pc = "log"
  /\ addExecutionLog(cancel[c].id, "system", "info", "Execution cancelled by user",
                     cancel[c].timestamp)
  /\ cancel' = [cancel EXCEPT ![c].pc = "reread"]
  /\ UNCHANGED <<flows, storage, executions, activeExecutions, run, starts, now, reply, utilities>>

\* the final getExecutionById returns the row to the caller
CancelReturn(c) ==
  /\ cancel[c].pc = "reread"
  /\ cancel' = [cancel EXCEPT ![c].pc = "returned",
                              ![c].returned = executions[cancel[c].id].status]
  /\ UNCHANGED <<flows, storage, executions, logs, activeExecutions, run, starts, now, reply, utilities>>

\* ---------------------------------------------------------------- getExecutionById
\* a lookup that answers an unknown id with an empty pending record
getExecutionById_DefaultRow(id) ==
  /\ reply' = [op |-> "getExecutionById", id |-> id, flowId |-> Undefined,
               outcome |-> IF id \in DOMAIN executions THEN executions[id].status
                           ELSE "pending",
               items |-> <<>>, total |-> 0]
  /\ UNCHANGED <<flows, storage, executions, logs, activeExecutions, run, cancel,
                 starts, now, utilities>>

\* getExecutionById as the status route calls it: the row's status, or
\* ApiError.notFound when the SELECT finds no row
getExecutionById(id) ==
  /\ reply' = [op |-> "getExecutionById", id |-> id, flowId |-> Undefined,
               outcome |-> IF id \in DOMAIN executions THEN executions[id].status
                           ELSE "NotFound",
               items |-> <<>>, total |-> 0]
  /\ UNCHANGED <<flows, storage, executions, logs, activeExecutions, run, cancel,
                 starts, now, utilities>>

\* ---------------------------------------------------------------- getExecutionLogs
\* the number of times row occurs in the sequence
Occurrences(seq, row) == Cardinality({i \in 1 .. Len(seq) : seq[i] = row})

\* SELECT ... ORDER BY timestamp ASC LIMIT limit: the pages the query may
\* return; rows with equal timestamps come in an order SQL leaves open
OrderedPages(rows, limit) ==
  LET k == IF BagCardinality(rows) < limit THEN BagCardinality(rows) ELSE limit
  IN  {page \in [1 .. k -> BagToSet(rows)] :
         /\ \A row \in BagToSet(rows) : Occurrences(page, row) <= CopiesIn(row, rows)
         /\ \A i, j \in 1 .. k : i < j => page[i].timestamp <= page[j].timestamp
         /\ \A row \in BagToSet(rows) :
              Occurrences(page, row) < CopiesIn(row, rows)
                => \A i \in 1 .. k : page[i].timestamp <= row.timestamp}

\* getExecutionLogs, first page: the count, then the ordered rows
getExecutionLogs(executionId, limit, level) ==
  LET all == IF executionId \in DOMAIN logs THEN logs[executionId] ELSE EmptyBag
      matching == {row \in BagToSet(all) : level = Undefined \/ row.level = level}
      rows == [row \in matching |-> CopiesIn(row, all)]
  IN  /\ \E page \in OrderedPages(rows, limit) :
           reply' = [op |-> "getExecutionLogs", id |-> executionId,
                     flowId |-> Undefined, outcome |-> "ok",
                     items |-> page, total |-> BagCardinality(rows)]
      /\ UNCHANGED <<flows, storage, executions, logs, activeExecutions, run, cancel,
                     starts, now, utilities>>

\* a millisecond passes
Tick ==
  /\ now < MaxClock
  /\ now' = now + 1
  /\ UNCHANGED <<flows, storage, executions, logs, activeExecutions, run, cancel,
                 starts, reply, utilities>>

\* ---------------------------------------------------------------- publishFlow
\* FlowService.validateFlowStructure: the message of the ApiError it throws,
\* Undefined when it returns
validateFlowStructure(flow) ==
  IF Len(flow.nodes) = 0 THEN "Flow must have at least one node"
  ELSE IF FindNodeByType(flow.nodes, "start") = 0 THEN "Flow must have a start node"
  ELSE IF FindNodeByType(flow.nodes, "end") = 0 THEN "Flow must have an end node"
  ELSE IF Len(flow.nodes) # Cardinality({flow.nodes[i].id : i \in 1 .. Len(flow.nodes)})
  THEN "Node IDs must be unique"
  ELSE IF \E i \in 1 .. Len(flow.connections) :
            \/ ~NodeExists(flow.nodes, flow.connections[i].sourceId)
            \/ ~NodeExists(flow.nodes, flow.connections[i].targetId)
  THEN "Invalid connection: source or target node not found"
  ELSE Undefined

\* publishFlow: read the flow, validate it, set is_published; whatever is
\* thrown inside, not-found and validation errors included, leaves as
\* ApiError.internal. The flows table has no other writer here, so the
\* awaits of the call are taken in one step.
publishFlow(id) ==
  LET flow == getFlowById(id)
      thrown == IF flow = NoFlow THEN "Flow not found" ELSE validateFlowStructure(flow)
  IN  /\ flows' = IF thrown = Undefined THEN [flows EXCEPT ![id].is_published = TRUE]
                  ELSE flows
      /\ reply' = [op |-> "publishFlow", id |-> 0, flowId |-> id,
                   outcome |-> IF thrown = Undefined THEN "published"
                               ELSE "InternalError",
                   items |-> <<>>, total |-> 0]
      /\ UNCHANGED <<storage, executions, logs, activeExecutions, run, cancel, starts, now, utilities>>

\* ---------------------------------------------------------------- process
\* the rejected promise of a crashed executeFlowAsync reaches the
\* unhandledRejection handler, whose shutdown ends the process (at the latest
\* when its 10 s timer fires) and with it every task still in flight
Shutdown ==
  /\ \E e \in DOMAIN run : run[e].pc = "crashed"
  /\ run' = [e \in DOMAIN run |->
               IF run[e].pc \in {"none", "done"} THEN run[e]
               ELSE [run[e] EXCEPT !.pc = "exit"]]
  /\ activeExecutions' = {}
  /\ UNCHANGED <<flows, storage, executions, logs, cancel, starts, now, reply, utilities>>

\* the process has not exited
ProcessUp == \A e \in DOMAIN run : run[e].pc # "exit"

\* ---------------------------------------------------------------- specification
Next ==
  \/ \E f \in FlowIds, d \in Inputs : executeFlow(f, d)
  \/ \E e \in ExecIds : RunUpdateRunning(e)
  \/ \E e \in ExecIds : RunLogStarted(e)
  \/ \E e \in ExecIds : RunLogExecuting(e)
  \/ \E e \in ExecIds : RunDelay(e)
  \/ \E e \in ExecIds : RunLogNodeOk(e)
  \/ \E e \in ExecIds : RunUpdateCompleted(e)
  \/ \E e \in ExecIds : RunLogCompleted(e)
  \/ \E e \in ExecIds : RunUpdateFailed(e)
  \/ \E e \in ExecIds : RunLogFailed(e)
  \/ \E c \in CancelIds, id \in CancelTargets : CancelRead(c, id)
  \/ \E c \in CancelIds : CancelUpdate(c)
  \/ \E c \in CancelIds : CancelLog(c)
  \/ \E c \in CancelIds : CancelReturn(c)

Spec == Init /\ [][Next]_vars

\* the engine with a running clock and a reader of the logs, on a published
\* flow in tables that accept the execution row
LogInit ==
  /\ Init
  /\ flows["f1"].name \in {"delay", "noStart"}
  /\ flows["f1"].status = "published"
  /\ ~storage.createdAtRequired

\* the reader asks once
LogNext ==
  \/ Next
  \/ Tick
  \/ /\ reply.op = Undefined
     /\ \E e \in ExecIds, limit \in 1 .. MaxLimit, level \in {Undefined, "error"} :
          getExecutionLogs(e, limit, level)

LogSpec == LogInit /\ [][LogNext]_vars

\* the engine with a client that asks for the status of executions, on a
\* flow that completes and one that fails, published or not
LookupInit ==
  /\ Init
  /\ flows["f1"].name \in {"delay", "noStart"}
  /\ flows["f1"].status # Undefined
  /\ ~storage.createdAtRequired

\* the client asks once
LookupNext ==
  \/ Next
  \/ /\ reply.op = Undefined
     /\ \E id \in CancelTargets : getExecutionById(id)

LookupSpec == LookupInit /\ [][LookupNext]_vars

\* the engine next to a client that publishes a flow; the stored graphs
\* include one whose connection names its target differently in its two
\* spellings
PublishFlows ==
  FlowCatalogue
  \cup { [name |-> "ghostNodeId", nodes |-> <<StartN, EndN>>,
          connections |-> <<[Conn("s", "e") EXCEPT !.targetNodeId = "ghost"]>>] }

PublishInit ==
  /\ \E g \in PublishFlows, v \in FlowVariableShapes,
        st \in {Undefined, "draft", "published"} :
       flows = [f \in {"f1"} |->
                  [id |-> f, name |-> g.name, nodes |-> g.nodes,
                   connections |-> g.connections, variables |-> v,
                   status |-> st, is_published |-> FALSE]]
  /\ storage \in [createdAtRequired : BOOLEAN]
  /\ executions = <<>>
  /\ logs = [e \in ExecIds |-> EmptyBag]
  /\ activeExecutions = {}
  /\ run = [e \in ExecIds |-> NoRun]
  /\ cancel = [c \in CancelIds |-> NoCancel]
  /\ starts = <<>>
  /\ now = 0
  /\ reply = NoReply
  /\ UtilitiesIdle

\* the client publishes once
PublishNext ==
  \/ Next
  \/ /\ reply.op = Undefined
     /\ \E f \in FlowIds : publishFlow(f)

PublishSpec == PublishInit /\ [][PublishNext]_vars

\* several executions in flight in one process: two published flows in
\* tables that accept the execution rows
ConcurrentFlows1 ==
  { [name |-> "delay", nodes |-> <<StartN, DelayN, EndN>>,
     connections |-> <<Conn("s", "a"), Conn("a", "e")>>],
    [name |-> "setX", nodes |-> <<StartN, SetN, EndN>>,
     connections |-> <<Conn("s", "v"), Conn("v", "e")>>] }

ConcurrentFlows2 ==
  { [name |-> "linear", nodes |-> <<StartN, HttpN, EndN>>,
     connections |-> <<Conn("s", "a"), Conn("a", "e")>>],
    [name |-> "getX", nodes |-> <<StartN, GetN, EndN>>,
     connections |-> <<Conn("s", "a"), Conn("a", "e")>>] }

ConcurrentInit ==
  /\ \E g1 \in ConcurrentFlows1, g2 \in ConcurrentFlows2, v1, v2 \in FlowVariableShapes :
       flows = [f \in {"f1", "f2"} |->
                  LET g == IF f = "f1" THEN g1 ELSE g2
                  IN  [id |-> f, name |-> g.name, nodes |-> g.nodes,
                       connections |-> g.connections,
                       variables |-> IF f = "f1" THEN v1 ELSE v2,
                       status |-> "published", is_published |-> FALSE]]
  /\ storage = [createdAtRequired |-> FALSE]
  /\ executions = <<>>
  /\ logs = [e \in 1 .. MaxConcurrent |-> EmptyBag]
  /\ activeExecutions = {}
  /\ run = [e \in 1 .. MaxConcurrent |-> NoRun]
  /\ cancel = [c \in CancelIds |-> NoCancel]
  /\ starts = <<>>
  /\ now = 0
  /\ reply = NoReply
  /\ UtilitiesIdle

ConcurrentNext ==
  \/ ProcessUp /\ \E f \in {"f1", "f2"}, d \in Inputs : executeFlow(f, d)
  \/ ProcessUp /\ \E e \in 1 .. MaxConcurrent : RunUpdateRunning(e)
  \/ ProcessUp /\ \E e \in 1 .. MaxConcurrent : RunLogStarted(e)
  \/ ProcessUp /\ \E e \in 1 .. MaxConcurrent : RunLogExecuting(e)
  \/ ProcessUp /\ \E e \in 1 .. MaxConcurrent : RunDelay(e)
  \/ ProcessUp /\ \E e \in 1 .. MaxConcurrent : RunLogNodeOk(e)
  \/ ProcessUp /\ \E e \in 1 .. MaxConcurrent : RunUpdateCompleted(e)
  \/ ProcessUp /\ \E e \in 1 .. MaxConcurrent : RunLogCompleted(e)
  \/ ProcessUp /\ Shutdown

ConcurrentSpec == ConcurrentInit /\ [][ConcurrentNext]_vars

\* ---------------------------------------------------------------- claims
\* the statuses the specification calls terminal
Terminal == {"completed", "failed", "cancelled"}

\* the run task of e has stopped: it returned, or its promise was rejected
RunStopped(e) == run[e].pc \in {"done", "crashed"}

\* some cancelExecution call named e
CancelRequested(e) == \E c \in CancelIds : cancel[c].pc # "idle" /\ cancel[c].id = e

\* a cancelExecution call that read status 'running' for e has written 'cancelled'
CancelAccepted(e) ==
  \E c \in CancelIds :
    /\ cancel[c].id = e
    /\ cancel[c].execution = "running"
    /\ cancel[c].pc \in {"log", "reread", "returned"}

\* the Graph Model invariants: one start, an end, unique ids, existing endpoints
GraphInvariantsHold(flow) ==
  /\ StartNodeErrors(flow.nodes) = <<>>
  /\ EndNodeErrors(flow.nodes) = <<>>
  /\ UniqueIdErrors(flow.nodes) = <<>>
  /\ ConnectionErrors(flow.nodes, flow.connections) = <<>>

\* some end node can be reached from the start node along connections
EndReachable(flow) ==
  \E i, j \in 1 .. Len(flow.nodes) :
    /\ flow.nodes[i].type = "start"
    /\ flow.nodes[j].type = "end"
    /\ flow.nodes[j].id \in Descendants(flow.connections, {flow.nodes[i].id}, {})

\* C1: once an execution's recorded status is completed, failed or cancelled,
\* no step of any operation changes it to a different value.
C1_TerminalAbsorbing ==
  [][\A e \in DOMAIN executions :
       executions[e].status \in Terminal
         => executions'[e].status = executions[e].status]_vars

\* C2: when cancelExecution has returned successfully for an execution and the
\* execution's run task has finished, the execution's status is cancelled.
C2_CancelledIsFinal ==
  \A c \in CancelIds :
    (cancel[c].pc = "returned" /\ RunStopped(cancel[c].id))
      => executions[cancel[c].id].status = "cancelled"

\* C3: a step of cancelExecution (its status check or its status write) taken
\* while the execution is already terminal makes the call fail and changes
\* neither the execution's row, nor its logs, nor the registry.
C3_CancelTerminalRejected ==
  [][\A c \in CancelIds :
       LET id == cancel'[c].id
       IN  ( /\ cancel[c].pc \in {"idle", "update"}
             /\ cancel'[c].pc # cancel[c].pc
             /\ id \in DOMAIN executions
             /\ executions[id].status \in Terminal )
           => ( /\ cancel'[c].pc = "rejected"
                /\ executions'[id] = executions[id]
                /\ logs'[id] = logs[id]
                /\ activeExecutions' = activeExecutions )]_vars

\* C4: after a cancel request for a running execution has been accepted while
\* the traversal loop is at some node, the loop enters no further node for
\* that execution.
C4_NoNodeAfterCancel ==
  [][\A e \in DOMAIN executions :
       (CancelAccepted(e) /\ run[e].context.executionPath # <<>>)
         => run'[e].context.executionPath = run[e].context.executionPath]_vars

\* C5: an execution of a valid flow with one start node and a reachable end
\* node that was never cancelled ends with status completed and its output set.
C5_ValidFlowCompletes ==
  \A e \in DOMAIN executions :
    ( /\ GraphInvariantsHold(run[e].flow)
      /\ EndReachable(run[e].flow)
      /\ ~CancelRequested(e)
      /\ RunStopped(e) )
    => ( /\ executions[e].status = "completed"
         /\ executions[e].output_data # SqlNull )

\* C6: after a node executor has reported failure, the next step of the run
\* enters no further node and leads to the failed status, not to completed.
C6_FailureStopsRun ==
  [][\A e \in DOMAIN executions :
       (~run[e].nodeResult.success /\ run'[e] # run[e])
         => ( /\ run'[e].context.executionPath = run[e].context.executionPath
              /\ run'[e].pc \in {"updateFailed", "logFailed", "done"} )]_vars

\* the traversal of e has stopped at a node that is not an end node and has no
\* outgoing connection
DeadEndReached(e) ==
  /\ run[e].pc \in {"updateCompleted", "logCompleted", "updateFailed", "logFailed", "done"}
  /\ run[e].currentNode # 0
  /\ LET node == run[e].flow.nodes[run[e].currentNode]
     IN  /\ node.type # "end"
         /\ \A i \in 1 .. Len(run[e].flow.connections) :
              run[e].flow.connections[i].sourceNodeId # node.id

\* C7: an execution whose traversal reached a dead end never has status
\* completed, and has status failed once its run task has finished uncancelled.
C7_DeadEndFails ==
  \A e \in DOMAIN executions :
    DeadEndReached(e)
      => ( /\ executions[e].status # "completed"
           /\ (RunStopped(e) /\ ~CancelRequested(e)) => executions[e].status = "failed" )

\* C8: executionPath never contains the same node id more than once (the
\* default maxRevisits), on every flow, cyclic ones included.
C8_NoRevisit ==
  \A e \in DOMAIN executions :
    LET path == run[e].context.executionPath
    IN  \A i, j \in 1 .. Len(path) : i # j => path[i] # path[j]

\* C9: no execution record, context or registry entry exists for a flow that
\* fails Graph Model validation; executeFlow answers such a flow with an error.
C9_InvalidFlowRejected ==
  /\ \A e \in DOMAIN executions :
       GraphInvariantsHold(getFlowById(executions[e].flow_id))
  /\ \A i \in 1 .. Len(starts) :
       (starts[i].flowId \in DOMAIN flows
          /\ ~GraphInvariantsHold(getFlowById(starts[i].flowId)))
         => starts[i].outcome # "pending"

\* C10: an executeFlow call on an unknown flow id, or on a flow whose status is
\* not 'published', answers with an error and creates no execution record, no
\* log entry, no registry entry and no run.
C10_UnpublishedRejected ==
  [][starts' # starts =>
       LET r == starts'[Len(starts')]
           flow == getFlowById(r.flowId)
       IN  (flow = NoFlow \/ flow.status # "published")
             => ( /\ r.outcome \in {"NotFound", "BadRequest"}
                  /\ r.executionId = 0
                  /\ executions' = executions
                  /\ logs' = logs
                  /\ activeExecutions' = activeExecutions
                  /\ run' = run )]_vars

\* an executeFlow call on a stored but unpublished flow has been answered
C10_Witness ==
  \E i \in 1 .. Len(starts) :
    /\ starts[i].flowId \in DOMAIN flows
    /\ getFlowById(starts[i].flowId).status # "published"
    /\ starts[i].outcome = "BadRequest"

\* the flow start -> action(http_request) -> end
IsStartActionEnd(flow) ==
  /\ flow.nodes = <<StartN, HttpN, EndN>>
  /\ flow.connections = <<Conn("s", "a"), Conn("a", "e")>>

\* C11: executeFlow answers 'pending' for every execution it creates; the
\* record of an uncancelled execution is pending until the run's first write,
\* its status only moves pending -> running -> one terminal status, which it
\* holds once the run task has stopped; for start -> http_request -> end that
\* status is completed and the recorded output is the action's payload.
C11_StatusSequence ==
  /\ \A i \in 1 .. Len(starts) :
       starts[i].executionId # 0 => starts[i].outcome = "pending"
  /\ \A e \in DOMAIN executions :
       ~CancelRequested(e)
         => ( /\ run[e].pc = "updateRunning" => executions[e].status = "pending"
              /\ run[e].pc \in {"logStarted", "logExecuting", "delay", "logNodeOk",
                                "updateCompleted", "updateFailed"}
                   => executions[e].status = "running"
              /\ RunStopped(e) => executions[e].status \in {"completed", "failed"}
              /\ (RunStopped(e) /\ IsStartActionEnd(run[e].flow))
                   => ( /\ executions[e].status = "completed"
                        /\ executions[e].output_data =
                             JSONstringify(executeHttpRequest(HttpN.config,
                                                              run[e].context.inputData)) ) )

\* C12: every execution id held in an activeExecutions registry has status
\* pending or running; an execution whose status is completed, failed or
\* cancelled is registered nowhere.
C12_RegistryInFlightOnly ==
  \A e \in activeExecutions : executions[e].status \in {"pending", "running"}

\* the field x of an input payload: in1 stands for the payload {x: 5}
FieldX(data) == IF data = "in1" THEN "5" ELSE Undefined

\* a comparison rule of a condition node holds of the input
RuleHolds(rule, data) ==
  /\ rule.leftOperand = "input.x"
  /\ rule.operator = "equals"
  /\ FieldX(data) = rule.rightOperand

\* the branch a condition node chooses: operator AND over its rules
ChosenBranch(node, data) ==
  IF \A i \in 1 .. Len(node.config.conditions) : RuleHolds(node.config.conditions[i], data)
  THEN "true" ELSE "false"

\* the targets of the connections that leave the node through the handle
HandleTargets(flow, node, handle) ==
  LET out == SelectSeq(flow.connections,
                       LAMBDA conn : conn.sourceNodeId = node.id /\ conn.sourceHandle = handle)
  IN  {out[i].targetNodeId : i \in 1 .. Len(out)}

\* where the traversal goes after a condition node: along the chosen branch,
\* or along defaultPath when no connection carries the chosen handle
BranchTargets(flow, node, data) ==
  IF HandleTargets(flow, node, ChosenBranch(node, data)) # {}
  THEN HandleTargets(flow, node, ChosenBranch(node, data))
  ELSE HandleTargets(flow, node, node.config.defaultPath)

\* C13: the node entered right after a condition node is the target of a
\* connection whose sourceHandle is the branch its rules choose for the input
\* (the 'false' branch when all rules under AND are false), or of the
\* connection matching defaultPath when no connection carries that handle
\* (a condition node with neither is the dead end of C14).
C13_BranchFollowsHandle ==
  \A e \in DOMAIN executions :
    LET path == run[e].context.executionPath
        flow == run[e].flow
    IN  \A i \in 1 .. Len(path) - 1 :
          \A k \in 1 .. Len(flow.nodes) :
            ( /\ flow.nodes[k].id = path[i]
              /\ flow.nodes[k].type = "condition"
              /\ BranchTargets(flow, flow.nodes[k], run[e].context.inputData) # {} )
              => path[i + 1] \in BranchTargets(flow, flow.nodes[k], run[e].context.inputData)

\* the flow start -> condition -> end whose one rule is 'input.x equals 5'
IsStartConditionEnd(flow) ==
  /\ Len(flow.nodes) = 3
  /\ flow.nodes[1].type = "start"
  /\ flow.nodes[2].type = "condition"
  /\ flow.nodes[2].config.conditions = <<RuleXEquals("5")>>
  /\ flow.nodes[3].type = "end"

\* C14: in start -> condition -> end with rule 'input.x equals 5' and input
\* {x: 5} the condition chooses 'true'; when no connection leaves the
\* condition node through the 'true' handle, the traversal enters no node
\* after it and a run that has finished uncancelled has status failed.
C14_NoTrueHandleFails ==
  \A e \in DOMAIN executions :
    LET flow == run[e].flow
        path == run[e].context.executionPath
    IN  ( /\ IsStartConditionEnd(flow)
          /\ FieldX(run[e].context.inputData) = "5"
          /\ HandleTargets(flow, flow.nodes[2], "true") = {} )
        => ( /\ ChosenBranch(flow.nodes[2], run[e].context.inputData) = "true"
             /\ \A i \in 1 .. Len(path) : path[i] = flow.nodes[2].id => i = Len(path)
             /\ (run[e].pc = "done" /\ ~CancelRequested(e))
                  => executions[e].status = "failed" )

\* every row inserted for an execution carries a timestamp no earlier than
\* the rows that execution already has
InsertedInTimestampOrder ==
  \A e \in ExecIds :
    \A row \in BagToSet(logs'[e]) :
      CopiesIn(row, logs'[e]) > CopiesIn(row, logs[e])
        => \A old \in BagToSet(logs[e]) : old.timestamp <= row.timestamp

\* a page read back lists the rows in the order the run produced them: a
\* node's result entry after its 'Executing node' entry, and the 'Executing
\* node' entry of the node visited next after that result entry
ReadInProductionOrder ==
  reply.op = "getExecutionLogs" =>
    LET items == reply.items
        path == run[reply.id].context.executionPath
    IN  \A i \in 1 .. Len(items) :
          /\ items[i].message = "Node executed successfully"
               => \E j \in 1 .. i - 1 :
                    /\ items[j].message = "Executing node"
                    /\ items[j].nodeId = items[i].nodeId
          /\ items[i].message = "Executing node"
               => \A k \in 2 .. Len(path) :
                    path[k] = items[i].nodeId
                      => \E j \in 1 .. i - 1 :
                           /\ items[j].message = "Node executed successfully"
                           /\ items[j].nodeId = path[k - 1]

\* C15: the log rows of an execution are inserted in non-decreasing timestamp
\* order, and getExecutionLogs, reading them back ordered by timestamp,
\* returns them in the order the run produced them.
C15_LogsReadInOrder == [][InsertedInTimestampOrder]_vars /\ []ReadInProductionOrder

\* the run task of e has work left: it is neither unlaunched nor stopped
InFlight(e) == run[e].pc \notin {"none", "done", "crashed", "exit"}

\* the next step of the run task of e
RunStep(e) ==
  \/ RunUpdateRunning(e) \/ RunLogStarted(e) \/ RunLogExecuting(e) \/ RunDelay(e)
  \/ RunLogNodeOk(e) \/ RunUpdateCompleted(e) \/ RunLogCompleted(e)

\* C16: of executions started concurrently, each one whose own run is sound
\* (a valid flow, seeded without error) has status completed once its run task
\* has stopped, whatever the others did; and while one execution waits in a
\* delay node, every other execution in flight can take its next step.
C16_IndependentRuns ==
  /\ \A e \in DOMAIN executions :
       ( /\ run[e].flow.variables.kind = "array"
         /\ GraphInvariantsHold(run[e].flow)
         /\ ~InFlight(e) )
       => executions[e].status = "completed"
  /\ \A e1, e2 \in DOMAIN executions :
       (run[e1].pc = "delay" /\ e2 # e1 /\ InFlight(e2)) => ENABLED RunStep(e2)

\* the values execution e itself can have given variable n: none, the default
\* its flow declares, and the values of the 'set' nodes it has entered
OwnValues(e, n) ==
  LET flow == run[e].flow
      path == run[e].context.executionPath
      items == flow.variables.items
  IN  {Undefined}
      \cup {items[i].defaultValue : i \in {k \in 1 .. Len(items) : items[k].name = n}}
      \cup {flow.nodes[i].config.value :
              i \in {k \in 1 .. Len(flow.nodes) :
                       /\ flow.nodes[k].type = "variable"
                       /\ flow.nodes[k].config.operation = "set"
                       /\ flow.nodes[k].config.variableName = n
                       /\ \E j \in 1 .. Len(path) : path[j] = flow.nodes[k].id}}

\* the run of e has just executed a 'get' of variable n
JustGot(e, n) ==
  /\ run[e].pc = "logNodeOk"
  /\ run[e].flow.nodes[run[e].currentNode].type = "variable"
  /\ run[e].flow.nodes[run[e].currentNode].config.operation = "get"
  /\ run[e].flow.nodes[run[e].currentNode].config.variableName = n

\* every variable of every execution holds a value that execution gave it,
\* and so does the output of a 'get'
VariablesOwn ==
  \A e \in DOMAIN executions :
    \A n \in VarNames :
      /\ run[e].context.variables[n] \in OwnValues(e, n)
      /\ JustGot(e, n) => run[e].nodeResult.outputData \in OwnValues(e, n)

\* the variables of an execution change only in a step of its own run task
VariablesChangeInOwnStep ==
  \A e \in DOMAIN run :
    run'[e].context.variables # run[e].context.variables => run'[e].pc # run[e].pc

\* C17: a value written by a variable node in one execution is never returned
\* by a 'get' in another execution and never changes another execution's
\* variables map, executions of the same flow included.
C17_VariablesPrivate == []VariablesOwn /\ [][VariablesChangeInOwnStep]_vars

\* one execution holds the value its 'set' node wrote while the 'get' of
\* another execution has returned that execution's own declared default
C17_Witness ==
  \E e1, e2 \in DOMAIN executions :
    /\ e1 # e2
    /\ run[e1].context.variables["x"] = SetN.config.value
    /\ JustGot(e2, "x")
    /\ run[e2].nodeResult.outputData = "dflt"

\* the execution ids that executeFlow calls have returned
ReturnedIds == {starts[i].executionId : i \in 1 .. Len(starts)} \ {0}

\* C18: getExecutionById and cancelExecution on an id that no executeFlow
\* call returned answer NotFound, and the step that answers changes no
\* execution record, no log row and no registry entry; the failed cancel
\* call does nothing afterwards.
C18_UnknownIdNotFound ==
  [][/\ ( /\ reply' # reply
          /\ reply'.op = "getExecutionById"
          /\ reply'.id \notin ReturnedIds )
        => ( /\ reply'.outcome = "NotFound"
             /\ UNCHANGED <<executions, logs, activeExecutions, run>> )
     /\ \A c \in CancelIds :
          ( /\ cancel[c].pc = "idle"
            /\ cancel'[c].pc # "idle"
            /\ cancel'[c].id \notin ReturnedIds )
          => ( /\ cancel'[c].pc = "notFound"
               /\ UNCHANGED <<executions, logs, activeExecutions, run>> )
     /\ \A c \in CancelIds :
          cancel[c].pc = "notFound" => cancel'[c] = cancel[c]]_vars

\* with an execution on record, a status request and a cancel request for an
\* id that was never returned have both been answered NotFound
C18_Witness ==
  /\ executions # <<>>
  /\ reply.op = "getExecutionById"
  /\ reply.id \notin ReturnedIds
  /\ reply.outcome = "NotFound"
  /\ \E c \in CancelIds : cancel[c].pc = "notFound" /\ cancel[c].id \notin ReturnedIds

\* the flow has no node of type start
NoStartNode(flow) == \A i \in 1 .. Len(flow.nodes) : flow.nodes[i].type # "start"

\* C19: the run of a flow without a start node enters and executes no node,
\* and once the run task of an uncancelled execution has stopped the record
\* has status failed and carries the no-start-node error.
C19_NoStartFails ==
  \A e \in DOMAIN executions :
    NoStartNode(run[e].flow)
      => ( /\ run[e].context.executionPath = <<>>
           /\ run[e].currentNode = 0
           /\ run[e].nodeResult = NoNodeResult
           /\ (RunStopped(e) /\ ~CancelRequested(e))
                => ( /\ executions[e].status = "failed"
                     /\ executions[e].error_message = "No start node found in flow" ) )

\* C20: a publishFlow call succeeds only for a stored flow with exactly one
\* start node, an end node, unique node ids and connections whose
\* sourceNodeId and targetNodeId name existing nodes; on any other flow it
\* fails and leaves the flows table, the published flag included, unchanged.
C20_PublishEnforcesInvariants ==
  [][(reply.op = Undefined /\ reply'.op = "publishFlow")
       => LET flow == getFlowById(reply'.flowId)
          IN  (flow = NoFlow \/ ~GraphInvariantsHold(flow))
                => ( /\ reply'.outcome # "published"
                     /\ flows' = flows )]_vars

\* ---------------------------------------------------------------------------
\* Node failures in the execution log
\* ---------------------------------------------------------------------------

\* the rows the step adds to the log of e
AddedRows(e) == BagToSet(logs'[e] (-) logs[e])

\* C21: the step that records the outcome of a node whose executor failed adds
\* an error-level row for that node and no info-level row for it.
C21_FailureLogged ==
  [][\A e \in DOMAIN run :
       (run[e].pc = "logNodeOk" /\ ~run[e].nodeResult.success /\ logs'[e] # logs[e])
         => ( /\ \E row \in AddedRows(e) :
                   row.nodeId = run[e].nodeResult.nodeId /\ row.level = "error"
              /\ \A row \in AddedRows(e) :
                   row.nodeId = run[e].nodeResult.nodeId => row.level # "info" )]_vars

\* ---------------------------------------------------------------------------
\* Variable nodes
\* ---------------------------------------------------------------------------

\* VariableNode.config.operation as the shared types declare it
VariableOperations == {"set", "get", "increment", "decrement", "append"}

\* a variable node applying the operation to x
VariableN(id, operation) ==
  Node(id, "variable",
       [NoConfig EXCEPT !.operation = operation, !.variableName = "x", !.value = "val"])

\* start -> a(operation) -> end, alone and after a set of x
VariableFlows ==
  { [name |-> op, nodes |-> <<StartN, VariableN("a", op), EndN>>,
     connections |-> <<Conn("s", "a"), Conn("a", "e")>>] : op \in VariableOperations }
  \cup
  { [name |-> "set_" \o op, nodes |-> <<StartN, SetN, VariableN("a", op), EndN>>,
     connections |-> <<Conn("s", "v"), Conn("v", "a"), Conn("a", "e")>>] :
      op \in VariableOperations }

VariableInit ==
  /\ \E g \in VariableFlows, v \in FlowVariableShapes :
       flows = [f \in {"f1"} |->
                  [id |-> f, name |-> g.name, nodes |-> g.nodes,
                   connections |-> g.connections, variables |-> v,
                   status |-> "published", is_published |-> FALSE]]
  /\ storage = [createdAtRequired |-> FALSE]
  /\ executions = <<>>
  /\ logs = [e \in ExecIds |-> EmptyBag]
  /\ activeExecutions = {}
  /\ run = [e \in ExecIds |-> NoRun]
  /\ cancel = [c \in CancelIds |-> NoCancel]
  /\ starts = <<>>
  /\ now = 0
  /\ reply = NoReply
  /\ UtilitiesIdle

VariableNext ==
  \/ ProcessUp /\ \E d \in Inputs : executeFlow("f1", d)
  \/ ProcessUp /\ \E e \in ExecIds : RunUpdateRunning(e)
  \/ ProcessUp /\ \E e \in ExecIds : RunLogStarted(e)
  \/ ProcessUp /\ \E e \in ExecIds : RunLogExecuting(e)
  \/ ProcessUp /\ \E e \in ExecIds : RunLogNodeOk(e)
  \/ ProcessUp /\ \E e \in ExecIds : RunUpdateCompleted(e)
  \/ ProcessUp /\ \E e \in ExecIds : RunLogCompleted(e)
  \/ ProcessUp /\ Shutdown

VariableSpec == VariableInit /\ [][VariableNext]_vars

\* the node whose 'Executing node' log is in flight for e
NodeInHand(e) == run[e].flow.nodes[run[e].currentNode]

\* C22: executing a variable node with any of the operations set, get,
\* increment, decrement, append succeeds; get yields the stored value of the
\* variable, the other four pass the node's input through, and set stores the
\* value.
C22_VariableOperations ==
  [][\A e \in DOMAIN run :
       ( /\ run[e].pc = "logExecuting"
         /\ run'[e].pc = "logNodeOk"
         /\ NodeInHand(e).type = "variable"
         /\ NodeInHand(e).config.operation \in VariableOperations )
         => ( /\ run'[e].nodeResult.success
              /\ IF NodeInHand(e).config.operation = "get"
                 THEN run'[e].result = run[e].context.variables["x"]
                 ELSE run'[e].result = run[e].result
              /\ NodeInHand(e).config.operation = "set"
                   => run'[e].context.variables["x"] = NodeInHand(e).config.value )]_vars

\* the default the flow declares for the variable, Undefined when it declares none
DeclaredDefault(flow, n) ==
  LET items == flow.variables.items
      i == LastIndex({k \in 1 .. Len(items) : items[k].name = n})
  IN  IF i = 0 THEN Undefined ELSE items[i].defaultValue

\* C23: an execution of a flow whose variables are stored as a name->value
\* record gets past the seeding of its variables (its run task is not rejected
\* and leaves status pending behind once it has started its first update),
\* and a get of a declared variable executed before any set of it yields the
\* declared default.
C23_VariablesSeeded ==
  \A e \in DOMAIN executions :
    (run[e].pc # "none" /\ run[e].flow.variables.kind = "record")
      => ( /\ run[e].pc # "crashed"
           /\ ( /\ run[e].pc = "logNodeOk"
                /\ NodeInHand(e).type = "variable"
                /\ NodeInHand(e).config.operation = "get"
                /\ SetN.id \notin { run[e].context.executionPath[i] :
                                      i \in 1 .. Len(run[e].context.executionPath) } )
                => run[e].result = DeclaredDefault(run[e].flow, "x") )

\* ---------------------------------------------------------------------------
\* Several outgoing connections
\* ---------------------------------------------------------------------------

\* the indices in flow.connections of the connections that leave the node
Outgoing(flow, node) ==
  {i \in 1 .. Len(flow.connections) : flow.connections[i].sourceNodeId = node.id}

\* C24: when the traversal leaves a node that is neither a condition nor an end
\* node and has several outgoing connections, the node it enters is the target
\* of the first of them in the order of flow.connections; it enters it whenever
\* that target is a node of the flow.
C24_FirstConnection ==
  [][\A e \in DOMAIN run :
       ( /\ run[e].pc = "logNodeOk"
         /\ run'[e] # run[e]
         /\ run'[e].pc # "exit"
         /\ NodeInHand(e).type \notin {"condition", "end"}
         /\ Cardinality(Outgoing(run[e].flow, NodeInHand(e))) >= 2 )
         => LET first ==
                  run[e].flow.connections[FirstIndex(Outgoing(run[e].flow, NodeInHand(e)))]
            IN  IF \E i \in 1 .. Len(run[e].flow.nodes) :
                     run[e].flow.nodes[i].id = first.targetNodeId
                THEN /\ run'[e].pc = "logExecuting"
                     /\ run'[e].context.currentNodeId = first.targetNodeId
                     /\ run'[e].flow.nodes[run'[e].currentNode].id = first.targetNodeId
                ELSE run'[e].pc # "logExecuting"]_vars

\* the action node of the cycle flow, whose connections are a->s then a->e, has
\* been left for the start node
C24_Witness ==
  \E e \in DOMAIN run :
    /\ run[e].flow.name = "cycle"
    /\ run[e].pc = "logExecuting"
    /\ run[e].context.executionPath = <<"s", "a", "s">>

\* ---------------------------------------------------------------------------
\* Publishing makes a flow executable
\* ---------------------------------------------------------------------------

\* C25: an executeFlow call on a flow that publishFlow has published (here: one
\* that also satisfies the Graph Model invariants) is not rejected and creates
\* an execution row with status pending.
C25_PublishedIsExecutable ==
  [][Len(starts') = Len(starts) + 1
       => LET call == starts'[Len(starts')]
          IN  ( /\ call.flowId \in DOMAIN flows
                /\ flows[call.flowId].is_published
                /\ GraphInvariantsHold(getFlowById(call.flowId)) )
                => ( /\ call.outcome = "pending"
                     /\ Len(executions') = Len(executions) + 1
                     /\ executions'[call.executionId].status = "pending"
                     /\ executions'[call.executionId].flow_id = call.flowId )]_vars

\* ---------------------------------------------------------------------------
\* limitConcurrency
\* ---------------------------------------------------------------------------
\* Task t is the t-th element of tasks; its promise is task().then(push), so
\* the push of its result and the settling of its entry in executing are one
\* step.  Tasks fulfil; the order in which they do is free.

\* the engine is not in use
EngineIdle ==
  /\ flows = [f \in {} |-> NoFlow]
  /\ storage = [createdAtRequired |-> FALSE]
  /\ executions = <<>>
  /\ logs = [e \in ExecIds |-> EmptyBag]
  /\ activeExecutions = {}
  /\ run = [e \in ExecIds |-> NoRun]
  /\ cancel = [c \in CancelIds |-> NoCancel]
  /\ starts = <<>>
  /\ now = 0
  /\ reply = NoReply

\* the sequence without its i-th element: splice(i, 1)
RemoveAt(seq, i) == [j \in 1 .. Len(seq) - 1 |-> IF j < i THEN seq[j] ELSE seq[j + 1]]

\* limitConcurrency(tasks, limit) entered: results = [], executing = []
limitConcurrency(tasks, limit) ==
  [NoLimiterCall EXCEPT !.pc = "loop", !.limit = limit, !.tasks = tasks]

LimiterInit ==
  /\ EngineIdle
  /\ \E n \in 0 .. MaxTasks, limit \in 1 .. MaxParallel :
       limiter = limitConcurrency(n, limit)
  /\ rateLimit = RateLimiter(0, 0)
  /\ useFlowStore = FreshStore

\* one iteration of the for loop up to its await: call the task, push its
\* promise, and wait for the race when executing has reached the limit
LimiterStart ==
  /\ limiter.pc = "loop"
  /\ limiter.started < limiter.tasks
  /\ LET promise == limiter.started + 1
         executing == Append(limiter.executing, promise)
     IN  limiter' = [limiter EXCEPT !.started = promise,
                                    !.executing = executing,
                                    !.pc = IF Len(executing) >= limiter.limit
                                           THEN "race" ELSE "loop"]
  /\ UNCHANGED <<engine, rateLimit, useFlowStore>>

\* a started task fulfils: its then-callback pushes the result
TaskSettle(t) ==
  /\ t \in 1 .. limiter.started
  /\ t \notin limiter.settled
  /\ limiter' = [limiter EXCEPT !.settled = @ \cup {t},
                                !.results = Append(@, t)]
  /\ UNCHANGED <<engine, rateLimit, useFlowStore>>

\* Promise.race(executing) has settled because some promise in executing has;
\* the loop resumes and splices out the promise of the task it started last
LimiterRaceWake ==
  /\ limiter.pc = "race"
  /\ \E i \in 1 .. Len(limiter.executing) : limiter.executing[i] \in limiter.settled
  /\ LET promise == limiter.started
         index == FirstIndex({i \in 1 .. Len(limiter.executing) :
                                limiter.executing[i] = promise})
     IN  limiter' = [limiter EXCEPT !.executing = RemoveAt(@, index),
                                    !.pc = "loop"]
  /\ UNCHANGED <<engine, rateLimit, useFlowStore>>

\* the loop is over and Promise.all(executing) has fulfilled: return results
LimiterReturn ==
  /\ limiter.pc = "loop"
  /\ limiter.started = limiter.tasks
  /\ \A i \in 1 .. Len(limiter.executing) : limiter.executing[i] \in limiter.settled
  /\ limiter' = [limiter EXCEPT !.pc = "resolved"]
  /\ UNCHANGED <<engine, rateLimit, useFlowStore>>

LimiterNext ==
  \/ LimiterStart
  \/ \E t \in 1 .. MaxTasks : TaskSettle(t)
  \/ LimiterRaceWake
  \/ LimiterReturn

LimiterSpec == LimiterInit /\ [][LimiterNext]_vars

\* the tasks that have been started and have not settled
Running == (1 .. limiter.started) \ limiter.settled

\* C26: at no time are more than limit tasks started and not yet settled.
C26_AtMostLimitRunning == Cardinality(Running) <= limiter.limit

\* C27: when the call resolves every task has settled, and the array it
\* returns holds exactly one result of each task.
C27_ResolvesWithAllResults ==
  [][(limiter.pc # "resolved" /\ limiter'.pc = "resolved")
       => ( /\ limiter'.settled = 1 .. limiter.tasks
            /\ Len(limiter'.results) = limiter.tasks
            /\ \A t \in 1 .. limiter.tasks :
                 \E i \in 1 .. Len(limiter'.results) : limiter'.results[i] = t )]_vars

\* ---------------------------------------------------------------------------
\* RateLimiter over its MemoryStore
\* ---------------------------------------------------------------------------
\* The MemoryStore methods are async but await nothing outside the store, so
\* one request's increment runs without another request in between.

\* the keys the keyGenerator yields
RateKeys == {"ip1"}

\* MemoryStore.get: the live count of the key, 0 for null; an entry whose
\* expiry lies before Date.now() is deleted
StoreGet(store, key, time) ==
  IF key \notin DOMAIN store \/ store[key].expiry < time
  THEN [value |-> 0, store |-> [k \in DOMAIN store \ {key} |-> store[k]]]
  ELSE [value |-> store[key].count, store |-> store]

\* MemoryStore.set: count := value, expiry := Date.now() + ttl
StoreSet(store, key, value, ttl, time) ==
  [k \in DOMAIN store \cup {key} |->
     IF k = key THEN [count |-> value, expiry |-> time + ttl] ELSE store[k]]

\* MemoryStore.increment: get, add one, set
StoreIncrement(store, key, ttl, time) ==
  LET current == StoreGet(store, key, time)
      newCount == current.value + 1
  IN  [value |-> newCount,
       store |-> StoreSet(current.store, key, newCount, ttl, time)]

RateInit ==
  /\ EngineIdle
  /\ limiter = NoLimiterCall
  /\ \E windowMs \in 1 .. MaxWindow, maxRequests \in 1 .. MaxAllowed :
       rateLimit = RateLimiter(windowMs, maxRequests)
  /\ useFlowStore = FreshStore

\* middleware(): count the request, then admit it (next()) or answer 429
RateRequest(key) ==
  /\ Len(rateLimit.requests) < MaxSent
  /\ LET incremented ==
           StoreIncrement(rateLimit.store, key, rateLimit.windowMs, rateLimit.time)
         current == incremented.value
     IN  rateLimit' =
           [rateLimit EXCEPT
              !.store = incremented.store,
              !.requests = Append(@, [key |-> key, time |-> rateLimit.time,
                                      current |-> current,
                                      admitted |-> ~(current > rateLimit.maxRequests)])]
  /\ UNCHANGED <<engine, limiter, useFlowStore>>

\* MemoryStore.cleanup on its interval: delete the expired entries
RateCleanup ==
  /\ \E k \in DOMAIN rateLimit.store : rateLimit.store[k].expiry < rateLimit.time
  /\ rateLimit' =
       [rateLimit EXCEPT
          !.store = [k \in {j \in DOMAIN @ : ~(@[j].expiry < rateLimit.time)} |-> @[k]]]
  /\ UNCHANGED <<engine, limiter, useFlowStore>>

\* a millisecond passes
RateTick ==
  /\ rateLimit.time < MaxTime
  /\ rateLimit' = [rateLimit EXCEPT !.time = @ + 1]
  /\ UNCHANGED <<engine, limiter, useFlowStore>>

RateNext ==
  \/ \E key \in RateKeys : RateRequest(key)
  \/ RateCleanup
  \/ RateTick

RateSpec == RateInit /\ [][RateNext]_vars

\* the time of the request that opened the key's current window: the last
\* request of the key that was counted as the first; -1 if there is none
WindowStart(requests, key) ==
  LET i == LastIndex({j \in 1 .. Len(requests) :
                        requests[j].key = key /\ requests[j].current = 1})
  IN  IF i = 0 THEN -1 ELSE requests[i].time

\* C28: a request of a key that arrives more than windowMs after the request
\* that opened the key's current window is admitted, whatever the key has
\* sent in between.
C28_WindowExpires ==
  [][Len(rateLimit'.requests) = Len(rateLimit.requests) + 1
       => LET request == rateLimit'.requests[Len(rateLimit'.requests)]
              start == WindowStart(rateLimit.requests, request.key)
          IN  (start >= 0 /\ request.time > start + rateLimit.windowMs)
                => request.admitted]_vars

\* ---------------------------------------------------------------------------
\* The editor's flow store
\* ---------------------------------------------------------------------------
\* Each store function is one synchronous call.  A node is its id and its
\* data, an edge its id and its end points.  selectedNode is a sequence of at
\* most one node (empty for null).  history[i] of the source is history[i + 1]
\* here.  calls counts the edits and clearFlow calls made so far.

NodeIds == {"n1", "n2"}
\* nodes offered to addNode, data offered to updateNode
NewNodes == {[id |-> n, data |-> "d0"] : n \in NodeIds}
NewData == {"d1"}
\* connections offered to addEdge
Connections == {[source |-> "n1", target |-> "n2"]}
EdgeIds == {"edge_" \o c.source \o "_" \o c.target : c \in Connections}
\* what setNodes / setEdges have put into a just-loaded store
LoadedNodes == {<<>>, <<[id |-> "n1", data |-> "d0"]>>}

\* an addToHistory that never drops the oldest entry
addToHistory_NoLimit(state) ==
  LET newHistory == Append(SubSeq(state.history, 1, state.historyIndex + 1),
                           [nodes |-> state.nodes, edges |-> state.edges])
  IN  [state EXCEPT !.history = newHistory,
                    !.historyIndex = Len(newHistory) - 1]

\* addToHistory: cut the redo tail, push the current nodes and edges, drop the
\* oldest entry beyond maxHistorySize
addToHistory(state) ==
  LET pushed == Append(SubSeq(state.history, 1, state.historyIndex + 1),
                       [nodes |-> state.nodes, edges |-> state.edges])
      newHistory == IF Len(pushed) > maxHistorySize THEN Tail(pushed) ELSE pushed
  IN  [state EXCEPT !.history = newHistory,
                    !.historyIndex = Len(newHistory) - 1]

addNode(state, node) ==
  addToHistory([state EXCEPT !.nodes = Append(@, node)])

updateNode(state, nodeId, data) ==
  addToHistory(
    [state EXCEPT
       !.nodes = [i \in 1 .. Len(@) |->
                    IF @[i].id = nodeId THEN [@[i] EXCEPT !.data = data] ELSE @[i]],
       !.selectedNode = [i \in 1 .. Len(@) |->
                           IF @[i].id = nodeId THEN [@[i] EXCEPT !.data = data]
                           ELSE @[i]]])

deleteNode(state, nodeId) ==
  addToHistory(
    [state EXCEPT
       !.nodes = SelectSeq(@, LAMBDA node : node.id # nodeId),
       !.edges = SelectSeq(@, LAMBDA edge : edge.source # nodeId /\ edge.target # nodeId),
       !.selectedNode = SelectSeq(@, LAMBDA node : node.id # nodeId)])

addEdge(state, connection) ==
  addToHistory(
    [state EXCEPT
       !.edges = Append(@, [id |-> "edge_" \o connection.source \o "_" \o connection.target,
                            source |-> connection.source,
                            target |-> connection.target])])

deleteEdge(state, edgeId) ==
  addToHistory([state EXCEPT !.edges = SelectSeq(@, LAMBDA edge : edge.id # edgeId)])

clearFlow(state) ==
  [state EXCEPT !.nodes = <<>>, !.edges = <<>>, !.selectedNode = <<>>,
                !.history = <<>>, !.historyIndex = -1]

canUndo(state) == state.historyIndex > 0

canRedo(state) == state.historyIndex < Len(state.history) - 1

undo(state) ==
  IF state.historyIndex > 0
  THEN LET newIndex == state.historyIndex - 1
           historyItem == state.history[newIndex + 1]
       IN  [state EXCEPT !.nodes = historyItem.nodes, !.edges = historyItem.edges,
                         !.historyIndex = newIndex, !.selectedNode = <<>>]
  ELSE state

redo(state) ==
  IF state.historyIndex < Len(state.history) - 1
  THEN LET newIndex == state.historyIndex + 1
           historyItem == state.history[newIndex + 1]
       IN  [state EXCEPT !.nodes = historyItem.nodes, !.edges = historyItem.edges,
                         !.historyIndex = newIndex, !.selectedNode = <<>>]
  ELSE state

\* a fresh store, or one that setNodes / setEdges have just loaded
StoreInit ==
  /\ EngineIdle
  /\ limiter = NoLimiterCall
  /\ rateLimit = RateLimiter(0, 0)
  /\ \E loaded \in LoadedNodes : useFlowStore = [FreshStore EXCEPT !.nodes = loaded]

\* the store after one more counted call
Called(state) == [state EXCEPT !.calls = useFlowStore.calls + 1]

AddNode(node) ==
  /\ useFlowStore.calls < MaxCalls
  /\ useFlowStore' = Called(addNode(useFlowStore, node))
  /\ UNCHANGED <<engine, limiter, rateLimit>>

UpdateNode(nodeId, data) ==
  /\ useFlowStore.calls < MaxCalls
  /\ useFlowStore' = Called(updateNode(useFlowStore, nodeId, data))
  /\ UNCHANGED <<engine, limiter, rateLimit>>

DeleteNode(nodeId) ==
  /\ useFlowStore.calls < MaxCalls
  /\ useFlowStore' = Called(deleteNode(useFlowStore, nodeId))
  /\ UNCHANGED <<engine, limiter, rateLimit>>

AddEdge(connection) ==
  /\ useFlowStore.calls < MaxCalls
  /\ useFlowStore' = Called(addEdge(useFlowStore, connection))
  /\ UNCHANGED <<engine, limiter, rateLimit>>

DeleteEdge(edgeId) ==
  /\ useFlowStore.calls < MaxCalls
  /\ useFlowStore' = Called(deleteEdge(useFlowStore, edgeId))
  /\ UNCHANGED <<engine, limiter, rateLimit>>

ClearFlow ==
  /\ useFlowStore.calls < MaxCalls
  /\ useFlowStore' = Called(clearFlow(useFlowStore))
  /\ UNCHANGED <<engine, limiter, rateLimit>>

Undo ==
  /\ useFlowStore' = undo(useFlowStore)
  /\ UNCHANGED <<engine, limiter, rateLimit>>

Redo ==
  /\ useFlowStore' = redo(useFlowStore)
  /\ UNCHANGED <<engine, limiter, rateLimit>>

\* setSelectedNode(node) with a node of the flow, or with null
SetSelectedNode ==
  /\ \E selected \in {<<>>} \cup {<<useFlowStore.nodes[i]>> : i \in 1 .. Len(useFlowStore.nodes)} :
       useFlowStore' = [useFlowStore EXCEPT !.selectedNode = selected]
  /\ UNCHANGED <<engine, limiter, rateLimit>>

StoreNext ==
  \/ \E node \in NewNodes : AddNode(node)
  \/ \E nodeId \in NodeIds, data \in NewData : UpdateNode(nodeId, data)
  \/ \E nodeId \in NodeIds : DeleteNode(nodeId)
  \/ \E connection \in Connections : AddEdge(connection)
  \/ \E edgeId \in EdgeIds : DeleteEdge(edgeId)
  \/ ClearFlow
  \/ Undo
  \/ Redo
  \/ SetSelectedNode

StoreSpec == StoreInit /\ [][StoreNext]_vars

\* C29: the history holds at most maxHistorySize entries, historyIndex lies
\* between -1 and the last index of the history, and when it is not negative
\* the current nodes and edges are those of history[historyIndex].
C29_HistoryConsistent ==
  /\ Len(useFlowStore.history) <= maxHistorySize
  /\ -1 <= useFlowStore.historyIndex
  /\ useFlowStore.historyIndex <= Len(useFlowStore.history) - 1
  /\ useFlowStore.historyIndex >= 0
       => /\ useFlowStore.nodes = useFlowStore.history[useFlowStore.historyIndex + 1].nodes
          /\ useFlowStore.edges = useFlowStore.history[useFlowStore.historyIndex + 1].edges

\* the history is full, its oldest entry has been dropped, and an undo has
\* moved the index back from the end
C29_Witness ==
  /\ Len(useFlowStore.history) = maxHistorySize
  /\ useFlowStore.calls > maxHistorySize
  /\ useFlowStore.historyIndex = maxHistorySize - 2
  /\ useFlowStore.nodes # <<>>

\* the step is one of the edits addNode, updateNode, deleteNode, addEdge,
\* deleteEdge: a counted call that left an entry in the history
EditStep ==
  /\ useFlowStore'.calls = useFlowStore.calls + 1
  /\ useFlowStore'.history # <<>>

\* C30: right after an edit canUndo() is true, undo() brings back the nodes
\* and edges from before the edit, and a redo() after it those from after
\* the edit.
C30_EditUndoable ==
  [][EditStep
       => ( /\ canUndo(useFlowStore')
            /\ undo(useFlowStore').nodes = useFlowStore.nodes
            /\ undo(useFlowStore').edges = useFlowStore.edges
            /\ redo(undo(useFlowStore')).nodes = useFlowStore'.nodes
            /\ redo(undo(useFlowStore')).edges = useFlowStore'.edges )]_vars

====
